---- MODULE Spec2Model ----
(***************************************************************************)
(* A model of autokeras/keras_layers.py: the top-level statements of the   *)
(* module as they run at import, the MultiCategoryEncoding layer           *)
(* (__init__, build, call, adapt, get_config) and the                      *)
(* TextVectorizationWithTokenizer layer (__init__, build, call,            *)
(* encode_sentence, bert_encode).                                          *)
(*                                                                         *)
(* Tensors are sequences: a batch is a sequence of rows, a row a sequence  *)
(* of cells.  A float32 is a record, Float(v) or NaN, so that parsing a    *)
(* string and imputing NaN are conversions and not the identity.           *)
(* Positions count from 1 here and from 0 in the source.                   *)
(***************************************************************************)
EXTENDS Integers, Sequences, FiniteSets

VARIABLES
    pc,               \* index in ModuleBody of the next top-level statement
    namespace,        \* names bound in the module's globals
    raised,           \* the exception that ended the import, or "none"
    constructed,      \* a MultiCategoryEncoding instance exists
    name,             \* the base layer's name (from **kwargs)
    encoding,         \* self.encoding
    encoding_layers,  \* self.encoding_layers
    lastOp,           \* the method of the layer that ran last
    lastArg,          \* its tensor argument (inputs of call, data of adapt)
    output,           \* what call returned
    buildLog,         \* the sub-layer build calls the last build made
    adaptLog,         \* the sub-layer adapt calls the last adapt made
    config,           \* what get_config returned
    restored,         \* the layer constructed again from config
    tokenizer,        \* self.tokenizer of TextVectorizationWithTokenizer
    text_inputs,      \* the batch of sentences of the last call
    text_outputs,     \* the dict bert_encode returned
    printed           \* the last line written by print

loadVars == <<pc, namespace, raised>>
mceVars == <<constructed, name, encoding, encoding_layers, lastOp, lastArg,
             output, buildLog, adaptLog, config, restored>>
textVars == <<tokenizer, text_inputs, text_outputs, printed>>
vars == <<pc, namespace, raised, constructed, name, encoding, encoding_layers,
          lastOp, lastArg, output, buildLog, adaptLog, config, restored,
          tokenizer, text_inputs, text_outputs, printed>>

(***************************************************************************)
(* Bounds.                                                                 *)
(***************************************************************************)
MaxCols == 2
MaxRows == 2
MaxBatch == 2
MaxWords == 2

Min(a, b) == IF a < b THEN a ELSE b

\* All sequences over S of length lo..hi.
SeqsOf(S, lo, hi) == UNION {[1..n -> S] : n \in lo..hi}

(***************************************************************************)
(* Module initialisation: the top-level statements, in source order.       *)
(* reads are the global names a statement evaluates when it runs (a class  *)
(* statement evaluates its decorator and bases, not its method bodies);    *)
(* binds are the names it binds.                                           *)
(***************************************************************************)
INT == "int"
NONE == "none"
ONE_HOT == "one-hot"

ModuleBody ==
    << [line |-> 15, reads |-> {}, binds |-> {"np"}],
       [line |-> 17, reads |-> {}, binds |-> {"tf"}],
       [line |-> 18, reads |-> {}, binds |-> {"preprocessing"}],
       [line |-> 19, reads |-> {}, binds |-> {"nest"}],
       [line |-> 21, reads |-> {}, binds |-> {"INT"}],
       [line |-> 22, reads |-> {}, binds |-> {"NONE"}],
       [line |-> 23, reads |-> {}, binds |-> {"ONE_HOT"}],
       [line |-> 26, reads |-> {"tf", "preprocessing"},
                     binds |-> {"MultiCategoryEncoding"}],
       [line |-> 90, reads |-> {"MultiColumnCategoricalEncoding", "index_lookup"},
                     binds |-> {"CUSTOM_OBJECTS"}],
       [line |-> 96, reads |-> {"preprocessing"},
                     binds |-> {"TextVectorizationWithTokenizer"}] >>

\* The import is over: every statement ran, or one raised.
ImportEnded == raised # "none" \/ pc > Len(ModuleBody)

\* A statement whose names are all bound runs and binds its own.
ExecStatement ==
    /\ raised = "none"
    /\ pc <= Len(ModuleBody)
    /\ ModuleBody[pc].reads \subseteq namespace
    /\ namespace' = namespace \cup ModuleBody[pc].binds
    /\ pc' = pc + 1
    /\ UNCHANGED <<raised, mceVars, textVars>>

\* A statement that evaluates an unbound name raises NameError, which ends
\* the import: no later statement runs.
RaiseNameError ==
    /\ raised = "none"
    /\ pc <= Len(ModuleBody)
    /\ ~(ModuleBody[pc].reads \subseteq namespace)
    /\ raised' = "NameError"
    /\ UNCHANGED <<pc, namespace, mceVars, textVars>>

(***************************************************************************)
(* Values.                                                                 *)
(***************************************************************************)
\* The strings a cell of the structured data holds.
Cells == {"7", "nan", "cat"}

Float(v) == [tag |-> "float", val |-> v]
NaN == [tag |-> "nan", val |-> 0]

\* tf.strings.to_number(s, tf.float32): the number a string spells; a string
\* that spells none makes the op raise InvalidArgumentError.
Parses(s) == s \in {"7", "nan"}
ToNumber(s) == IF s = "7" THEN Float(7) ELSE NaN

\* tf.math.is_nan
IsNan(x) == x.tag = "nan"

\* Imputed without the replacement of NaN.
ImputedKeep(x) == x

\* tf.where(tf.math.is_nan(number), tf.zeros_like(number), number), one cell.
Imputed(x) == IF IsNan(x) THEN Float(0) ELSE x

\* The encoding strings a caller may pass: the three the module names and one
\* it does not.
EncodingStrings == {INT, NONE, ONE_HOT, "frequency"}

\* The **kwargs of the constructor: a name for the base layer, or none.
Names == {"multi_category_encoding", "encoder"}

\* The inputs of call for a layer of n columns.  call encodes cell by cell, so
\* a batch of one row shows every case of a batch.
Batches(n) == {<<row>> : row \in [1..n -> Cells]}

\* The strings of the dataset a layer is adapted to, and the dataset.
AdaptCells == {"7", "cat"}
Datasets(n) == SeqsOf([1..n -> AdaptCells], 1, MaxRows)

(***************************************************************************)
(* preprocessing.StringLookup() with its defaults: index 0 is the mask     *)
(* token "", index 1 the out-of-vocabulary token, and the vocabulary       *)
(* follows, most frequent token first.                                     *)
(***************************************************************************)
None == [kind |-> "None", built |-> FALSE, vocab |-> <<>>]
StringLookup == [kind |-> "StringLookup", built |-> FALSE, vocab |-> <<>>]

IsNone(layer) == layer.kind = "None"

Count(tok, col) == Cardinality({r \in 1..Len(col) : col[r] = tok})

\* The order of equally frequent tokens.
Rank(tok) == CASE tok = "7" -> 1 [] tok = "nan" -> 2 [] OTHER -> 3

Before(t, u, col) ==
    \/ Count(t, col) > Count(u, col)
    \/ Count(t, col) = Count(u, col) /\ Rank(t) > Rank(u)

RECURSIVE SortTokens(_, _)
SortTokens(S, col) ==
    IF S = {} THEN <<>>
    ELSE LET t == CHOOSE x \in S : \A u \in S \ {x} : Before(x, u, col)
         IN <<t>> \o SortTokens(S \ {t}, col)

\* StringLookup.adapt(column): the vocabulary is replaced by the column's.
Vocabulary(col) == SortTokens({col[r] : r \in 1..Len(col)}, col)

\* StringLookup.__call__ on one cell.
LookupIndex(layer, s) ==
    IF \E p \in 1..Len(layer.vocab) : layer.vocab[p] = s
    THEN 1 + (CHOOSE p \in 1..Len(layer.vocab) : layer.vocab[p] = s)
    ELSE 1

(***************************************************************************)
(* MultiCategoryEncoding.                                                  *)
(***************************************************************************)
\* Appended with the 'none' and 'int' branches exchanged.
AppendedSwapped(e) ==
    IF e = NONE THEN <<StringLookup>>
    ELSE IF e = INT THEN <<None>>
    ELSE IF e = ONE_HOT THEN <<None>>
    ELSE <<>>

\* One pass of the loop of __init__ over an encoding string: what it appends.
Appended(e) ==
    IF e = NONE THEN <<None>>
    ELSE IF e = INT THEN <<StringLookup>>
    ELSE IF e = ONE_HOT THEN <<None>>
    ELSE <<>>

RECURSIVE MakeLayers(_)
MakeLayers(enc) ==
    IF enc = <<>> THEN <<>>
    ELSE Appended(Head(enc)) \o MakeLayers(Tail(enc))

NoOutput == [status |-> "none", value |-> <<>>, concat |-> FALSE]
NoRestored == [made |-> FALSE, encoding |-> <<>>, encoding_layers |-> <<>>]

\* The variables that hold what the last method returned or logged are reset
\* by every method: they describe the last call only.
Returned(op, arg, out, blog, alog, cfg, res) ==
    /\ lastOp' = op
    /\ lastArg' = arg
    /\ output' = out
    /\ buildLog' = blog
    /\ adaptLog' = alog
    /\ config' = cfg
    /\ restored' = res

\* A method of the instance starts when no result of an earlier one is pending.
Idle == constructed /\ lastOp = "idle"

\* The caller takes what the last method returned; the instance is idle again.
Return ==
    /\ constructed
    /\ lastOp # "idle"
    /\ Returned("idle", <<>>, NoOutput, <<>>, <<>>, <<>>, NoRestored)
    /\ UNCHANGED <<constructed, name, encoding, encoding_layers, loadVars,
                   textVars>>

\* The instance can be used once the class statement has run and the import
\* has returned control (the class stays registered with the serialization
\* registry even when the import raised later).
ClassAvailable == ImportEnded /\ "MultiCategoryEncoding" \in namespace

Construct(enc, nm) ==
    /\ ClassAvailable
    /\ ~constructed
    /\ constructed' = TRUE
    /\ name' = nm
    /\ encoding' = enc
    /\ encoding_layers' = MakeLayers(enc)
    /\ Returned("__init__", <<>>, NoOutput, <<>>, <<>>, <<>>, NoRestored)
    /\ UNCHANGED <<loadVars, textVars>>

\* build: the loop over self.encoding_layers, from position i on.  Each layer
\* that is not None is built with tf.TensorShape([1]).
RECURSIVE BuildCalls(_, _)
BuildCalls(layers, i) ==
    IF i > Len(layers) THEN <<>>
    ELSE IF IsNone(layers[i]) THEN BuildCalls(layers, i + 1)
    ELSE <<[index |-> i, shape |-> <<1>>]>> \o BuildCalls(layers, i + 1)

BuiltLayer(layer) ==
    IF IsNone(layer) THEN layer ELSE [layer EXCEPT !.built = TRUE]

Build ==
    /\ Idle
    /\ encoding_layers' = [i \in 1..Len(encoding_layers) |->
                              BuiltLayer(encoding_layers[i])]
    /\ Returned("build", <<>>, NoOutput, BuildCalls(encoding_layers, 1), <<>>,
                <<>>, NoRestored)
    /\ UNCHANGED <<constructed, name, encoding, loadVars, textVars>>

\* tf.slice(x, [0, index], [-1, 1]) over the batch: column c of data.
Slice(data, c) == [r \in 1..Len(data) |-> data[r][c]]

\* SlicedColumn for a lambda that ran only after the loop: index is the last.
SlicedColumnLate(index, n) == n

\* The column that the lambda of adapt slices for the layer at position index
\* (of n): data.map traces the lambda when it is called, inside the loop pass,
\* so index has this pass's value.
SlicedColumn(index, n) == index

\* adapt: the loop over enumerate(self.encoding_layers), from position i on.
RECURSIVE AdaptCalls(_, _, _)
AdaptCalls(layers, data, i) ==
    IF i > Len(layers) THEN <<>>
    ELSE IF IsNone(layers[i]) THEN AdaptCalls(layers, data, i + 1)
    ELSE <<[index |-> i,
            column |-> SlicedColumn(i, Len(layers)),
            data_column |-> Slice(data, SlicedColumn(i, Len(layers)))]>>
         \o AdaptCalls(layers, data, i + 1)

\* The layers after the adapt calls of a log.
RECURSIVE Adapted(_, _)
Adapted(layers, log) ==
    IF log = <<>> THEN layers
    ELSE Adapted([layers EXCEPT ![Head(log).index].vocab =
                                    Vocabulary(Head(log).data_column)],
                 Tail(log))

Adapt(data) ==
    /\ Idle
    /\ LET log == AdaptCalls(encoding_layers, data, 1)
       IN /\ encoding_layers' = Adapted(encoding_layers, log)
          /\ Returned("adapt", data, NoOutput, <<>>, log, <<>>, NoRestored)
    /\ UNCHANGED <<constructed, name, encoding, loadVars, textVars>>

\* call, one pass of the loop: an input column and the layer zip pairs it with.
NumericColumn(col) ==
    [ok |-> \A r \in 1..Len(col) : Parses(col[r]),
     values |-> [r \in 1..Len(col) |->
                    IF Parses(col[r]) THEN Imputed(ToNumber(col[r])) ELSE NaN]]

LookupColumn(col, layer) ==
    [ok |-> TRUE,
     values |-> [r \in 1..Len(col) |-> Float(LookupIndex(layer, col[r]))]]

EncodeColumn(col, layer) ==
    IF IsNone(layer) THEN NumericColumn(col) ELSE LookupColumn(col, layer)

\* zip(split_inputs, self.encoding_layers) stops with the shorter of the two.
ZipLen(nCols, layers) == Min(nCols, Len(layers))

\* tf.keras.layers.Concatenate()(output_nodes): the columns side by side.
Concatenate(output_nodes, nRows) ==
    [r \in 1..nRows |-> [k \in 1..Len(output_nodes) |-> output_nodes[k][r]]]

CallResult(inputs, enc, layers) ==
    LET split_inputs == [c \in 1..Len(enc) |-> Slice(inputs, c)]
        n == ZipLen(Len(split_inputs), layers)
        nodes == [k \in 1..n |-> EncodeColumn(split_inputs[k], layers[k])]
        output_nodes == [k \in 1..n |-> nodes[k].values]
    IN IF \E k \in 1..n : ~nodes[k].ok
       THEN [status |-> "InvalidArgumentError", value |-> <<>>, concat |-> FALSE]
       ELSE IF n = 1
       THEN [status |-> "ok",
             value |-> [r \in 1..Len(inputs) |-> <<output_nodes[1][r]>>],
             concat |-> FALSE]
       ELSE IF n = 0
       THEN [status |-> "ValueError", value |-> <<>>, concat |-> FALSE]
       ELSE [status |-> "ok",
             value |-> Concatenate(output_nodes, Len(inputs)),
             concat |-> TRUE]

Call(inputs) ==
    /\ Idle
    /\ Returned("call", inputs, CallResult(inputs, encoding, encoding_layers),
                <<>>, <<>>, <<>>, NoRestored)
    /\ UNCHANGED <<constructed, name, encoding, encoding_layers, loadVars,
                   textVars>>

\* dict(items): keys in the order they first appear, each with its last value.
\* Every value is a list of strings, a scalar a list of one.
HasKey(d, k) == \E p \in 1..Len(d) : d[p][1] = k
Get(d, k) == d[CHOOSE p \in 1..Len(d) : d[p][1] = k][2]

RECURSIVE Dict(_)
Dict(items) ==
    IF items = <<>> THEN <<>>
    ELSE LET d == Dict(SubSeq(items, 1, Len(items) - 1))
             it == items[Len(items)]
         IN IF HasKey(d, it[1])
            THEN [p \in 1..Len(d) |-> IF d[p][1] = it[1] THEN it ELSE d[p]]
            ELSE Append(d, it)

\* super().get_config() of the base layer.
BaseConfig(nm) ==
    << <<"name", <<nm>>>>, <<"trainable", <<"True">>>>, <<"dtype", <<"float32">>>> >>

\* ConfigOf with the encoding list read back from the layers.
LayerKind(layer) == IF IsNone(layer) THEN NONE ELSE INT

ConfigOfLayers(nm, enc, layers) ==
    Dict(BaseConfig(nm)
         \o << <<"encoding", [i \in 1..Len(layers) |-> LayerKind(layers[i])]>> >>)

\* get_config of a layer named nm: the base entries, then 'encoding'.
ConfigOf(nm, enc, layers) ==
    Dict(BaseConfig(nm) \o << <<"encoding", enc>> >>)

GetConfig ==
    /\ Idle
    /\ Returned("get_config", <<>>, NoOutput, <<>>, <<>>,
                ConfigOf(name, encoding, encoding_layers), NoRestored)
    /\ UNCHANGED <<constructed, name, encoding, encoding_layers, loadVars,
                   textVars>>

\* MultiCategoryEncoding(**config): __init__ on the config get_config returned.
FromConfig ==
    /\ constructed
    /\ lastOp = "get_config"
    /\ Returned("from_config", <<>>, NoOutput, <<>>, <<>>, config,
                [made |-> TRUE,
                 encoding |-> Get(config, "encoding"),
                 encoding_layers |-> MakeLayers(Get(config, "encoding"))])
    /\ UNCHANGED <<constructed, name, encoding, encoding_layers, loadVars,
                   textVars>>

(***************************************************************************)
(* TextVectorizationWithTokenizer.  The tokenizer is the caller's object   *)
(* (the docstring names bert.tokenization.FullTokenizer); it is modelled   *)
(* as a word-piece table and a vocabulary.  A sentence is the sequence of  *)
(* its words.  The class is modelled as written, for a caller that holds   *)
(* it: its operations are the next-state relation NextText of SpecText.    *)
(***************************************************************************)
Words == {"hi", "playing"}
Sentences == SeqsOf(Words, 0, MaxWords)
Tokenizers == {"uncased", "cased"}

\* tokenizer.tokenize(s): the word pieces of each word, in order.
WordPieces(w) == IF w = "playing" THEN <<"play", "##ing">> ELSE <<w>>

RECURSIVE Tokenize(_)
Tokenize(s) ==
    IF s = <<>> THEN <<>> ELSE WordPieces(Head(s)) \o Tokenize(Tail(s))

\* tokenizer.convert_tokens_to_ids(tokens): each token's id in the vocabulary
\* of the tokenizer, which holds [PAD] at 0.
TokenId(tok, t) ==
    LET base == CASE t = "[CLS]" -> 1 [] t = "[SEP]" -> 2 [] t = "hi" -> 3
                  [] t = "play" -> 4 [] t = "##ing" -> 5 [] OTHER -> 0
    IN IF tok = "cased" /\ base > 2 THEN base + 3 ELSE base

ConvertTokensToIds(tok, tokens) ==
    [p \in 1..Len(tokens) |-> TokenId(tok, tokens[p])]

\* encode_sentence
EncodeSentence(tok, s) ==
    ConvertTokensToIds(tok, Append(Tokenize(s), "[SEP]"))

\* tf.concat([a, b], axis=-1) of two ragged tensors of as many rows.
RaggedConcat(a, b) == [i \in 1..Len(a) |-> a[i] \o b[i]]

OnesLike(ragged) == [i \in 1..Len(ragged) |-> [j \in 1..Len(ragged[i]) |-> 1]]
ZerosLike(ragged) == [i \in 1..Len(ragged) |-> [j \in 1..Len(ragged[i]) |-> 0]]

\* The length of the longest row.
RECURSIVE MaxLen(_)
MaxLen(ragged) ==
    IF ragged = <<>> THEN 0
    ELSE LET m == MaxLen(Tail(ragged))
         IN IF Len(Head(ragged)) > m THEN Len(Head(ragged)) ELSE m

\* RaggedTensor.to_tensor(): every row padded on the right with 0.
ToTensor(ragged) ==
    [i \in 1..Len(ragged) |->
        [j \in 1..MaxLen(ragged) |->
            IF j <= Len(ragged[i]) THEN ragged[i][j] ELSE 0]]

\* InputMask with ones_like taken after the padding.
InputMaskDense(input_word_ids) == OnesLike(ToTensor(input_word_ids))

\* input_mask of bert_encode.
InputMask(input_word_ids) == ToTensor(OnesLike(input_word_ids))

\* The row bert_encode puts before every sentence.
ClsRows(tok, n) == [i \in 1..n |-> ConvertTokensToIds(tok, <<"[CLS]">>)]

BertEncode(tok, input) ==
    LET sentence1 == [i \in 1..Len(input) |-> EncodeSentence(tok, input[i])]
        cls == ClsRows(tok, Len(sentence1))
        input_word_ids == RaggedConcat(cls, sentence1)
        input_mask == InputMask(input_word_ids)
        type_cls == ZerosLike(cls)
        type_s1 == ZerosLike(sentence1)
        input_type_ids == ToTensor(RaggedConcat(type_cls, type_s1))
    IN [input_word_ids |-> ToTensor(input_word_ids),
        input_mask |-> input_mask,
        input_type_ids |-> input_type_ids]

TextConstruct(tok) ==
    /\ tokenizer = "none"
    /\ tokenizer' = tok
    /\ UNCHANGED <<text_inputs, text_outputs, printed, loadVars, mceVars>>

NoTextOutputs ==
    [input_word_ids |-> <<>>, input_mask |-> <<>>, input_type_ids |-> <<>>]

\* A method of the text layer starts when no result of call is pending.
TextIdle == tokenizer # "none" /\ text_inputs = <<>>

\* The caller takes the dict call returned.
TextReturn ==
    /\ text_inputs # <<>>
    /\ text_inputs' = <<>>
    /\ text_outputs' = NoTextOutputs
    /\ UNCHANGED <<tokenizer, printed, loadVars, mceVars>>

\* build only prints its argument.
TextBuild(input_shape) ==
    /\ TextIdle
    /\ printed' = [fn |-> "build", args |-> input_shape]
    /\ UNCHANGED <<tokenizer, text_inputs, text_outputs, loadVars, mceVars>>

\* call returns bert_encode(inputs), which prints the batch's length and shape.
TextCall(inputs) ==
    /\ TextIdle
    /\ text_inputs' = inputs
    /\ text_outputs' = BertEncode(tokenizer, inputs)
    /\ printed' = [fn |-> "bert_encode", args |-> <<Len(inputs), Len(inputs)>>]
    /\ UNCHANGED <<tokenizer, loadVars, mceVars>>

Init ==
    /\ pc = 1
    /\ namespace = {}
    /\ raised = "none"
    /\ constructed = FALSE
    /\ name = ""
    /\ encoding = <<>>
    /\ encoding_layers = <<>>
    /\ lastOp = "none"
    /\ lastArg = <<>>
    /\ output = NoOutput
    /\ buildLog = <<>>
    /\ adaptLog = <<>>
    /\ config = <<>>
    /\ restored = NoRestored
    /\ tokenizer = "none"
    /\ text_inputs = <<>>
    /\ text_outputs = NoTextOutputs
    /\ printed = [fn |-> "none", args |-> <<>>]

Next ==
    \/ ExecStatement
    \/ RaiseNameError
    \/ \E enc \in SeqsOf(EncodingStrings, 1, MaxCols), nm \in Names :
          Construct(enc, nm)
    \/ Build
    \/ \E data \in Datasets(Len(encoding)) : Adapt(data)
    \/ \E inputs \in Batches(Len(encoding)) : Call(inputs)
    \/ GetConfig
    \/ FromConfig
    \/ Return

Spec == Init /\ [][Next]_vars

NextText ==
    \/ \E tok \in Tokenizers : TextConstruct(tok)
    \/ \E n \in 1..MaxBatch : TextBuild(<<n>>)
    \/ \E inputs \in SeqsOf(Sentences, 1, MaxBatch) : TextCall(inputs)
    \/ TextReturn

SpecText == Init /\ [][NextText]_vars

(***************************************************************************)
(* Properties.                                                             *)
(***************************************************************************)
Cols == 1..Len(encoding)
Layers == 1..Len(encoding_layers)
IsLookup(layer) == layer.kind = "StringLookup"
CallReturned == lastOp = "call" /\ output.status = "ok"

\* C1: after construction with an encoding list of 'int' and 'none' only,
\* encoding_layers has a string lookup exactly at the 'int' positions and None
\* exactly at the 'none' positions.
C1_EncodingDecidesLayer ==
    (constructed /\ \A i \in Cols : encoding[i] \in {INT, NONE}) =>
        /\ Len(encoding_layers) = Len(encoding)
        /\ \A i \in Cols :
              /\ IsLookup(encoding_layers[i]) <=> encoding[i] = INT
              /\ IsNone(encoding_layers[i]) <=> encoding[i] = NONE

C1_Witness ==
    /\ lastOp = "__init__"
    /\ encoding = <<INT, NONE>>
    /\ IsLookup(encoding_layers[1])
    /\ IsNone(encoding_layers[2])

\* C2: in what call returns, a column whose layer is None holds the number
\* each input cell spells, with 0 in place of NaN, and never NaN.
C2_NumericPassthroughImputed ==
    CallReturned =>
        \A k \in Layers : IsNone(encoding_layers[k]) =>
            \A r \in 1..Len(lastArg) :
                LET number == ToNumber(lastArg[r][k])
                    cell == output.value[r][k]
                IN /\ ~IsNan(cell)
                   /\ IsNan(number) => cell = Float(0)
                   /\ ~IsNan(number) => cell = number

C2_Witness ==
    /\ CallReturned
    /\ \E k \in Layers :
          /\ IsNone(encoding_layers[k])
          /\ lastArg[1][k] = "nan"
          /\ output.value[1][k] = Float(0)
    /\ \E k \in Layers :
          /\ IsNone(encoding_layers[k])
          /\ lastArg[1][k] = "7"
          /\ output.value[1][k] = Float(7)

\* C3: for every 'int' column i, after adapt(data) the lookup at position i
\* has the vocabulary of column i of data, and call returns in column i the
\* index that lookup gives each cell of input column i.
C3_VocabularyFromOwnColumn ==
    \A i \in Cols : encoding[i] = INT =>
        /\ lastOp = "adapt" =>
              /\ i \in Layers
              /\ IsLookup(encoding_layers[i])
              /\ encoding_layers[i].vocab = Vocabulary(Slice(lastArg, i))
        /\ CallReturned =>
              \A r \in 1..Len(lastArg) :
                  /\ i \in 1..Len(output.value[r])
                  /\ output.value[r][i] =
                        Float(LookupIndex(encoding_layers[i], lastArg[r][i]))

\* C4: call returns one column for each of the len(encoding) input columns,
\* column i being the encoding of input column i, and for one column returns
\* the encoded column without concatenating.
C4_OneOutputColumnPerInput ==
    CallReturned =>
        /\ \A r \in 1..Len(lastArg) :
              /\ Len(output.value[r]) = Len(encoding)
              /\ \A i \in Cols \cap Layers :
                    output.value[r][i] =
                        EncodeColumn(Slice(lastArg, i), encoding_layers[i]).values[r]
        /\ Len(encoding) = 1 => ~output.concat

\* C5: get_config returns every entry of the base config and an 'encoding'
\* entry equal to the list given at construction; the layer made from that
\* config has the same encoding list and, position by position, the same kind
\* of encoding layer, whatever build and adapt did before.
C5_ConfigRoundTrip ==
    /\ lastOp = "get_config" =>
          /\ \A p \in 1..Len(BaseConfig(name)) :
                /\ HasKey(config, BaseConfig(name)[p][1])
                /\ Get(config, BaseConfig(name)[p][1]) = BaseConfig(name)[p][2]
          /\ HasKey(config, "encoding")
          /\ Get(config, "encoding") = encoding
          /\ Len(config) = Len(BaseConfig(name)) + 1
    /\ lastOp = "from_config" =>
          /\ restored.made
          /\ restored.encoding = encoding
          /\ Len(restored.encoding_layers) = Len(encoding_layers)
          /\ \A i \in Layers :
                restored.encoding_layers[i].kind = encoding_layers[i].kind

C5_Witness ==
    /\ lastOp = "from_config"
    /\ restored.made
    /\ \E i \in Cols : encoding[i] = ONE_HOT
    /\ \E i \in Layers :
          encoding_layers[i].built /\ encoding_layers[i].vocab # <<>>

\* C6: the import runs every top-level statement without raising (a statement
\* raises when it reads a name not yet bound), and both layer classes are
\* bound when it ends.
C6_ModuleInitCompletes ==
    /\ raised = "none"
    /\ ImportEnded =>
          {"MultiCategoryEncoding", "TextVectorizationWithTokenizer"}
              \subseteq namespace

\* C7: for every list of strings given as encoding, in every state after
\* construction, encoding_layers is as long as encoding.
C7_OneLayerPerEncoding ==
    constructed => Len(encoding_layers) = Len(encoding)

\* C8: the layer of a 'one-hot' column is None, build and adapt skip the
\* column, and call returns for it one column: the number each cell spells,
\* with 0 in place of NaN.
C8_OneHotHandledAsNumeric ==
    \A i \in Cols : encoding[i] = ONE_HOT =>
        /\ i \in Layers
        /\ IsNone(encoding_layers[i])
        /\ \A p \in 1..Len(buildLog) : buildLog[p].index # i
        /\ \A p \in 1..Len(adaptLog) :
              adaptLog[p].index # i /\ adaptLog[p].column # i
        /\ CallReturned =>
              \A r \in 1..Len(lastArg) :
                  /\ i \in 1..Len(output.value[r])
                  /\ output.value[r][i] = Imputed(ToNumber(lastArg[r][i]))

\* What one adapt did: the layers it adapted, in order, each with its slice.
C9_AdaptLogRight ==
    lastOp = "adapt" =>
        /\ \A p \in 1..Len(adaptLog) :
              /\ adaptLog[p].index \in Layers
              /\ ~IsNone(encoding_layers[adaptLog[p].index])
              /\ adaptLog[p].column = adaptLog[p].index
              /\ adaptLog[p].data_column = Slice(lastArg, adaptLog[p].index)
              /\ encoding_layers[adaptLog[p].index].vocab =
                    Vocabulary(Slice(lastArg, adaptLog[p].index))
        /\ \A p, q \in 1..Len(adaptLog) :
              p < q => adaptLog[p].index < adaptLog[q].index
        /\ \A i \in Layers :
              ~IsNone(encoding_layers[i]) =>
                  \E p \in 1..Len(adaptLog) : adaptLog[p].index = i

\* What one build did: the layers it built, in order, each with its shape.
C9_BuildLogRight ==
    lastOp = "build" =>
        /\ \A p \in 1..Len(buildLog) :
              /\ buildLog[p].index \in Layers
              /\ ~IsNone(encoding_layers[buildLog[p].index])
              /\ buildLog[p].shape = <<1>>
        /\ \A p, q \in 1..Len(buildLog) :
              p < q => buildLog[p].index < buildLog[q].index
        /\ \A i \in Layers :
              ~IsNone(encoding_layers[i]) =>
                  /\ encoding_layers[i].built
                  /\ \E p \in 1..Len(buildLog) : buildLog[p].index = i

\* What a build or adapt step leaves alone.
C9_Frame ==
    lastOp' \in {"build", "adapt"} =>
        /\ encoding' = encoding
        /\ Len(encoding_layers') = Len(encoding_layers)
        /\ \A i \in Layers :
              IsNone(encoding_layers'[i]) <=> IsNone(encoding_layers[i])

\* C9: one adapt calls adapt on each layer that is not None, once, in
\* ascending position, with the slice of data at the layer's own position;
\* one build builds each layer that is not None once with shape [1]; and
\* neither changes encoding, the length of encoding_layers or the positions
\* that hold None.
C9_AdaptBuildLifecycle ==
    /\ [](C9_AdaptLogRight /\ C9_BuildLogRight)
    /\ [][C9_Frame]_vars

C9_Witness ==
    /\ lastOp = "adapt"
    /\ encoding = <<INT, INT>>
    /\ Len(adaptLog) = 2
    /\ encoding_layers[1].vocab # encoding_layers[2].vocab
    /\ encoding_layers[1].built

\* C10: for every batch given to call, row i of input_word_ids is the id of
\* [CLS], the ids of the tokens of sentence i in order and the id of [SEP],
\* padded on the right with 0 to the longest row; input_mask is 1 at the
\* positions before the padding and 0 at the padding; input_type_ids is 0
\* everywhere; the three have the same shape.
RowLen(s) == Len(Tokenize(s)) + 2

====
